---- MODULE Spec2Model ----
(***************************************************************************)
(* Model of the notebook "Using External Tables from BigQuery": one run of *)
(* its code cells, top to bottom.  The notebook thread issues one blocking *)
(* library call per statement; an uncaught exception in a cell ends the    *)
(* run.  The object store and the query engine are remote services: their  *)
(* state (bucket, object, query job) is part of the model's state.         *)
(***************************************************************************)
EXTENDS Integers, Sequences, FiniteSets, TLC

VARIABLES
  pc,            \* statement the notebook thread is at, or "done" / "failed"
  waiting,       \* the thread is blocked in a library call
  inflight,      \* remote calls issued and not yet answered
  attempts,      \* how often each remote call has been issued
  started,       \* statements begun so far, in order
  error,         \* exception the run ended with, "none" otherwise
  raised,        \* error the remote service answered with, "none" otherwise
  failedStep,    \* statement that raised, "none" otherwise
  src,           \* body served at data_source
  connOpen,      \* the connection f is open
  data,          \* the buffer data
  bucketExists,  \* the bucket exists in the object store
  bucketCreated, \* this run created the bucket
  objExists,     \* station_data.csv exists in the bucket
  objContent,    \* its bytes
  drivedata,     \* <<>> or <<the external data source descriptor>>
  jobState,      \* remote query job: "none", "running", "done"
  jobOutcome,    \* what the job produced
  result         \* <<>> or <<the rows the query call returned>>

vars == <<pc, waiting, inflight, attempts, started, error, raised, failedStep,
          src, connOpen, data, bucketExists, bucketCreated, objExists,
          objContent, drivedata, jobState, jobOutcome, result>>

\* ------------------------------------------------------------------ bounds
\* free rows directly after the first line of the source CSV
MaxPre == 1
\* length of the run of identical malformed rows in the source CSV
MaxBad == 11
\* length of the trailing run of well-formed rows in the source CSV
MaxGood == 6

\* --------------------------------------------------------- program values
\* variant: one more leading row is skipped
skip_leading_rows_two == 1 + 1

\* bq.CSVOptions(skip_leading_rows=1)
skip_leading_rows == 1

\* variant: the tolerance is one short
max_bad_records_nine == 10 - 1

\* bq.ExternalDataSource(..., max_bad_records=10)
max_bad_records == 10

\* variant: the limit is one short
QueryLimit_four == 5 - 1

\* ... LIMIT 5
QueryLimit == 5

options == [skip_leading_rows |-> skip_leading_rows]

\* variant: lat and long are declared in the other order
schema_swapped ==
  << [name |-> "id",        type |-> "INTEGER"],
     [name |-> "name",      type |-> "STRING"],
     [name |-> "terminal",  type |-> "STRING"],
     [name |-> "long",      type |-> "FLOAT"],
     [name |-> "lat",       type |-> "FLOAT"],
     [name |-> "dockcount", type |-> "INTEGER"],
     [name |-> "online",    type |-> "STRING"] >>

schema ==
  << [name |-> "id",        type |-> "INTEGER"],
     [name |-> "name",      type |-> "STRING"],
     [name |-> "terminal",  type |-> "STRING"],
     [name |-> "lat",       type |-> "FLOAT"],
     [name |-> "long",      type |-> "FLOAT"],
     [name |-> "dockcount", type |-> "INTEGER"],
     [name |-> "online",    type |-> "STRING"] >>

\* sample_object.uri for bucket <project>-station_data, object station_data.csv
ObjectUri == "gs://project-station_data/station_data.csv"

ExternalDataSource(source, csv_options, sch, mbr) ==
  [source |-> source, csv_options |-> csv_options, schema |-> sch,
   max_bad_records |-> mbr]

\* bq.Query('SELECT * FROM drivedatasource LIMIT 5', data_sources={...})
Query(ds) ==
  [cols |-> <<"*">>, from |-> "drivedatasource", limit |-> QueryLimit,
   data_sources |-> [drivedatasource |-> ds]]

\* The statements of the notebook in cell order.
Steps == << "urlopen", "read", "close", "create_bucket", "write_object",
            "declare", "query", "delete_object", "delete_bucket" >>

\* Statements that are a blocking call to a remote service.
RemoteSteps == {"urlopen", "read", "create_bucket", "write_object", "query",
                "delete_object", "delete_bucket"}

StepIndex(s) == CHOOSE i \in 1..Len(Steps) : Steps[i] = s

NextPc(s) == IF StepIndex(s) = Len(Steps) THEN "done" ELSE Steps[StepIndex(s) + 1]

\* ------------------------------------------------------------ source CSVs
\* header line and first rows of the station data, as recorded in the output
Header == <<"id", "name", "terminal", "lat", "long", "dockcount", "online">>
Row4 == <<"4", "2nd Ave & Blanchard St", "BT-05", "47.61311", "-122.344208",
          "14", "10/13/2014">>
Row3 == <<"3", "6th Ave & Blanchard St", "BT-04", "47.616094", "-122.341102",
          "16", "10/13/2014">>
\* a row with more fields than the schema
RowExtra == Row3 \o <<"x">>
\* a row whose lat field does not parse as FLOAT
RowBadType == <<"2", "2nd Ave & Vine St", "BT-03", "n/a", "-122.348564",
                "16", "10/13/2014">>

IntTexts == {"4", "3", "2", "14", "16"}
FloatTexts == {"47.61311", "-122.344208", "47.616094", "-122.341102",
               "-122.348564"}

Rep(row, n) == [i \in 1..n |-> row]

SeqsUpTo(S, n) == UNION {[1..k -> S] : k \in 0..n}

\* The bodies the URL may serve: empty, or a first line, up to MaxPre free
\* rows, a run of malformed rows and a run of well-formed rows.
Sources ==
  {<<>>} \cup
  { <<h>> \o pre \o Rep(b, k) \o Rep(Row3, g) :
      h \in {Header, Row4},
      pre \in SeqsUpTo({Header, Row4, RowExtra, RowBadType}, MaxPre),
      b \in {RowExtra, RowBadType},
      k \in 0..MaxBad,
      g \in 0..MaxGood }

\* Errors a remote service may answer a call with.
Faults == {"unavailable", "denied"}

\* ----------------------------------------------------------- query engine
\* How the remote engine reads a field under a declared column type.
Parsable(field, type) ==
  CASE type = "STRING"  -> TRUE
    [] type = "FLOAT"   -> field \in FloatTexts \cup IntTexts
    [] type = "INTEGER" -> field \in IntTexts
    [] OTHER            -> FALSE

\* A row has more fields than the schema, or a field that does not parse.
Malformed(row, sch) ==
  \/ Len(row) > Len(sch)
  \/ \E i \in 1..Len(sch) : i <= Len(row) /\ ~Parsable(row[i], sch[i].type)

\* Fields are mapped to the schema's columns by position and typed.
TypedRow(row, sch) ==
  [i \in 1..Len(sch) |-> [type |-> sch[i].type, text |-> row[i]]]

\* Lines of the object that remain after the leading rows are skipped.
DataLines(content, ds) ==
  {i \in 1..Len(content) : i > ds.csv_options.skip_leading_rows}

BadLines(content, ds) ==
  {i \in DataLines(content, ds) : Malformed(content[i], ds.schema)}

\* The external table: the well-formed data lines in file order.
TableRows(content, ds) ==
  LET idx == [i \in 1..Len(content) |-> i]
      keep(i) == i \in DataLines(content, ds) /\ i \notin BadLines(content, ds)
      good == SelectSeq(idx, keep)
  IN  [j \in 1..Len(good) |->
         [line |-> good[j], fields |-> TypedRow(content[good[j]], ds.schema)]]

ColIndex(sch, name) == CHOOSE i \in 1..Len(sch) : sch[i].name = name

Project(row, cols, sch) ==
  IF cols = <<"*">> THEN row
  ELSE [line |-> row.line,
        fields |-> [j \in 1..Len(cols) |-> row.fields[ColIndex(sch, cols[j])]]]

Min(a, b) == IF a <= b THEN a ELSE b

\* SELECT cols FROM alias LIMIT n over the object the alias is bound to.
ExecuteQuery(q, exists, content) ==
  LET ds == q.data_sources[q.from]
      rows == TableRows(content, ds)
  IN  IF ~exists
        THEN [ok |-> FALSE, error |-> "not_found", rows |-> <<>>]
      ELSE IF Cardinality(BadLines(content, ds)) > ds.max_bad_records
        THEN [ok |-> FALSE, error |-> "bad_records", rows |-> <<>>]
      ELSE [ok |-> TRUE, error |-> "none",
            rows |-> [j \in 1..Min(q.limit, Len(rows)) |->
                        Project(rows[j], q.cols, ds.schema)]]

\* ------------------------------------------------------------------- run
NoOutcome == [ok |-> FALSE, error |-> "none", rows |-> <<>>]

Init ==
  /\ pc = "urlopen"
  /\ waiting = FALSE
  /\ inflight = {}
  /\ attempts = [s \in RemoteSteps |-> 0]
  /\ started = <<>>
  /\ error = "none"
  /\ raised = "none"
  /\ failedStep = "none"
  /\ src \in Sources
  /\ connOpen = FALSE
  /\ data = <<>>
  /\ bucketExists \in BOOLEAN
  /\ bucketCreated = FALSE
  /\ objExists = FALSE
  /\ objContent = <<>>
  /\ drivedata = <<>>
  /\ jobState = "none"
  /\ jobOutcome = NoOutcome
  /\ result = <<>>

\* The notebook thread issues the blocking call of the statement at pc.
Call ==
  /\ pc \in RemoteSteps
  /\ ~waiting
  /\ waiting' = TRUE
  /\ inflight' = inflight \cup {pc}
  /\ attempts' = [attempts EXCEPT ![pc] = @ + 1]
  /\ started' = Append(started, pc)
  /\ jobState' = IF pc = "query" THEN "running" ELSE jobState
  /\ UNCHANGED <<pc, error, raised, failedStep, src, connOpen, data,
                 bucketExists, bucketCreated, objExists, objContent,
                 drivedata, jobOutcome, result>>

\* variant: the exception is caught and another one raised in its place
Propagate_wrapped(e) == "wrapped"

\* No statement is inside a try block: the exception the library raises is
\* the exception the operator sees.
Propagate(e) == e

\* The call of step s raises e: nothing catches it, the run ends.
Raise(s, e) ==
  /\ pc' = "failed"
  /\ raised' = e
  /\ error' = Propagate(e)
  /\ failedStep' = s

\* The call of step s returns normally: the next statement is reached.
Proceed(s) ==
  /\ pc' = NextPc(s)
  /\ UNCHANGED <<error, raised, failedStep>>

\* The response to the call of step s has arrived.
Returns(s) ==
  /\ pc = s
  /\ waiting
  /\ s \in inflight
  /\ waiting' = FALSE
  /\ inflight' = inflight \ {s}
  /\ UNCHANGED <<attempts, started, src>>

\* f = urlopen(data_source)
UrlopenReturn ==
  /\ Returns("urlopen")
  /\ \/ /\ connOpen' = TRUE
        /\ Proceed("urlopen")
     \/ /\ \E e \in Faults : Raise("urlopen", e)
        /\ UNCHANGED connOpen
  /\ UNCHANGED <<data, bucketExists, bucketCreated, objExists, objContent,
                 drivedata, jobState, jobOutcome, result>>

\* data = f.read()
ReadReturn ==
  /\ Returns("read")
  /\ \/ /\ data' = src
        /\ Proceed("read")
     \/ /\ \E e \in Faults : Raise("read", e)
        /\ UNCHANGED data
  /\ UNCHANGED <<connOpen, bucketExists, bucketCreated, objExists, objContent,
                 drivedata, jobState, jobOutcome, result>>

\* f.close()
Close ==
  /\ pc = "close"
  /\ ~waiting
  /\ connOpen' = FALSE
  /\ started' = Append(started, "close")
  /\ Proceed("close")
  /\ UNCHANGED <<waiting, inflight, attempts, src, data, bucketExists,
                 bucketCreated, objExists, objContent, drivedata, jobState,
                 jobOutcome, result>>

\* sample_bucket.create()
CreateBucketReturn ==
  /\ Returns("create_bucket")
  /\ \/ /\ ~bucketExists
        /\ bucketExists' = TRUE
        /\ bucketCreated' = TRUE
        /\ Proceed("create_bucket")
     \/ /\ bucketExists
        /\ Raise("create_bucket", "conflict")
        /\ UNCHANGED <<bucketExists, bucketCreated>>
     \/ /\ \E e \in Faults : Raise("create_bucket", e)
        /\ UNCHANGED <<bucketExists, bucketCreated>>
  /\ UNCHANGED <<connOpen, data, objExists, objContent, drivedata, jobState,
                 jobOutcome, result>>

\* variant: the first line of the buffer is not written
WriteStream_tail(buf) == IF buf = <<>> THEN buf ELSE Tail(buf)

\* The bytes handed to the object store for the buffer buf.
WriteStream(buf) == buf

\* sample_object.write_stream(data, 'text/plain')
WriteObjectReturn ==
  /\ Returns("write_object")
  /\ \/ /\ objExists' = TRUE
        /\ objContent' = WriteStream(data)
        /\ Proceed("write_object")
     \/ /\ \E e \in Faults : Raise("write_object", e)
        /\ UNCHANGED <<objExists, objContent>>
  /\ UNCHANGED <<connOpen, data, bucketExists, bucketCreated, drivedata,
                 jobState, jobOutcome, result>>

\* options = ...; schema = ...; drivedata = bq.ExternalDataSource(...)
Declare ==
  /\ pc = "declare"
  /\ ~waiting
  /\ drivedata' = <<ExternalDataSource(ObjectUri, options, schema,
                                       max_bad_records)>>
  /\ started' = Append(started, "declare")
  /\ Proceed("declare")
  /\ UNCHANGED <<waiting, inflight, attempts, src, connOpen, data,
                 bucketExists, bucketCreated, objExists, objContent, jobState,
                 jobOutcome, result>>

\* The remote engine runs the submitted job to completion.
JobRun ==
  /\ jobState = "running"
  /\ jobState' = "done"
  /\ \/ jobOutcome' = ExecuteQuery(Query(drivedata[1]), objExists, objContent)
     \/ \E e \in Faults :
          jobOutcome' = [ok |-> FALSE, error |-> e, rows |-> <<>>]
  /\ UNCHANGED <<pc, waiting, inflight, attempts, started, error, raised,
                 failedStep, src, connOpen, data, bucketExists, bucketCreated,
                 objExists, objContent, drivedata, result>>

\* variant: the call returns without waiting for the job (execute_async)
JobFinished_async == TRUE

\* execute() waits for the job; result() hands back its rows.
JobFinished == jobState = "done"

\* bq.Query(...).execute().result()
QueryReturn ==
  /\ Returns("query")
  /\ JobFinished
  /\ \/ /\ jobOutcome.ok
        /\ result' = <<jobOutcome.rows>>
        /\ Proceed("query")
     \/ /\ ~jobOutcome.ok
        /\ Raise("query", jobOutcome.error)
        /\ UNCHANGED result
  /\ UNCHANGED <<connOpen, data, bucketExists, bucketCreated, objExists,
                 objContent, drivedata, jobState, jobOutcome>>

\* sample_object.delete()
DeleteObjectReturn ==
  /\ Returns("delete_object")
  /\ \/ /\ objExists' = FALSE
        /\ objContent' = <<>>
        /\ Proceed("delete_object")
     \/ /\ \E e \in Faults : Raise("delete_object", e)
        /\ UNCHANGED <<objExists, objContent>>
  /\ UNCHANGED <<connOpen, data, bucketExists, bucketCreated, drivedata,
                 jobState, jobOutcome, result>>

\* sample_bucket.delete()
DeleteBucketReturn ==
  /\ Returns("delete_bucket")
  /\ \/ /\ bucketExists' = FALSE
        /\ Proceed("delete_bucket")
     \/ /\ \E e \in Faults : Raise("delete_bucket", e)
        /\ UNCHANGED bucketExists
  /\ UNCHANGED <<connOpen, data, bucketCreated, objExists, objContent,
                 drivedata, jobState, jobOutcome, result>>

Next ==
  \/ Call
  \/ UrlopenReturn
  \/ ReadReturn
  \/ Close
  \/ CreateBucketReturn
  \/ WriteObjectReturn
  \/ Declare
  \/ JobRun
  \/ QueryReturn
  \/ DeleteObjectReturn
  \/ DeleteBucketReturn

Spec == Init /\ [][Next]_vars

\* ================================================================ claims
Ended == pc \in {"done", "failed"}

Range(f) == {f[i] : i \in DOMAIN f}

\* The statement s has been executed and has returned normally.
StepDone(s) == s \in Range(started) /\ pc # s /\ failedStep # s

\* The query call has been answered, normally or with an exception.
QueryAnswered == "query" \in Range(started) /\ pc # "query"

QuerySucceeded == QueryAnswered /\ failedStep # "query"

\* Malformed rows of the buffer, the first (skipped) line not counted.
BadRowCount ==
  Cardinality({i \in 2..Len(data) : Malformed(data[i], schema)})

\* Well-formed rows of the buffer, the first (skipped) line not counted.
GoodRowCount ==
  Cardinality({i \in 2..Len(data) : ~Malformed(data[i], schema)})

DeclaredTypes ==
  <<"INTEGER", "STRING", "STRING", "FLOAT", "FLOAT", "INTEGER", "STRING">>

\* C1: in every run that created the bucket and wrote the object, when the
\* run has ended delete-object and delete-bucket have been executed and
\* neither the object nor the bucket exists, whether the query step
\* succeeded or failed.
C1_CleanupRunsAlways ==
  (Ended /\ bucketCreated /\ StepDone("write_object")) =>
     /\ attempts["delete_object"] >= 1
     /\ attempts["delete_bucket"] >= 1
     /\ ~objExists
     /\ ~bucketExists

\* C2: the statements start in the fixed order fetch, create bucket, write
\* object, declare, query, delete object, delete bucket; at most one remote
\* call is in flight and it is the call of the statement started last; the
\* thread stays blocked in the query call while the job is running, so the
\* object exists and has not been asked to be deleted while the job runs;
\* the object never exists without its bucket.
C2_StrictlySequential ==
  /\ Len(started) <= Len(Steps)
  /\ \A i \in 1..Len(started) : started[i] = Steps[i]
  /\ Cardinality(inflight) <= 1
  /\ \A s \in inflight : started # <<>> /\ s = started[Len(started)] /\ pc = s
  /\ jobState = "running" =>
       /\ pc = "query"
       /\ waiting
       /\ objExists
       /\ "delete_object" \notin Range(started)
  /\ objExists => bucketExists

C2_Witness ==
  /\ pc = "done"
  /\ started = Steps
  /\ jobState = "done"
  /\ ~objExists
  /\ ~bucketExists

\* C3: every remote call is issued at most once; when the run has failed,
\* the failing call was issued exactly once, the run carries the very error
\* the service answered with, and the failing statement is the last one that
\* was started.
C3_PassThrough ==
  /\ \A s \in RemoteSteps : attempts[s] <= 1
  /\ pc = "failed" =>
       /\ failedStep \in RemoteSteps
       /\ attempts[failedStep] = 1
       /\ raised # "none"
       /\ error = raised
       /\ started[Len(started)] = failedStep
       /\ ~waiting
       /\ inflight = {}
  /\ pc # "failed" => error = "none" /\ failedStep = "none"

C3_Witness ==
  /\ pc = "failed"
  /\ failedStep = "query"
  /\ error = "bad_records"
  /\ attempts["delete_object"] = 0

\* C4: while the stored object exists, its bytes are the buffer the fetch
\* returned, and that buffer is the body that was served.
C4_RoundTrip ==
  objExists => (objContent = data /\ data = src)

C4_Witness ==
  /\ objExists
  /\ Len(objContent) >= 2
  /\ jobState = "done"
  /\ jobOutcome.ok

\* C5: once the query call has been answered, it has failed if the CSV has
\* more than 10 malformed rows after the skipped line, and it has succeeded
\* if it has at most 10 and the service answered with no fault of its own.
C5_BadRecordTolerance ==
  QueryAnswered =>
    /\ BadRowCount > 10 => (pc = "failed" /\ failedStep = "query")
    /\ (BadRowCount <= 10 /\ raised \notin Faults) =>
         (QuerySucceeded /\ result # <<>>)

C5_Witness ==
  /\ QuerySucceeded
  /\ BadRowCount = 10

\* C6 as stated: a successful query returns exactly 5 rows of 7 fields with
\* the declared types.
C6_ExactlyFiveRows ==
  result # <<>> =>
    /\ Len(result[1]) = 5
    /\ \A j \in 1..Len(result[1]) :
         /\ Len(result[1][j].fields) = 7
         /\ \A c \in 1..7 : result[1][j].fields[c].type = DeclaredTypes[c]

\* C6 amended: a successful query returns min(5, W) rows, W the number of
\* well-formed rows after the skipped line; each has 7 fields with the
\* declared types, and each field's text reads as its type.
C6_AtMostFiveRows ==
  result # <<>> =>
    /\ Len(result[1]) = Min(5, GoodRowCount)
    /\ \A j \in 1..Len(result[1]) :
         /\ Len(result[1][j].fields) = 7
         /\ \A c \in 1..7 :
              /\ result[1][j].fields[c].type = DeclaredTypes[c]
              /\ Parsable(result[1][j].fields[c].text, DeclaredTypes[c])

C6_Witness ==
  /\ result # <<>>
  /\ Len(result[1]) = 3
  /\ GoodRowCount = 3

\* The query of the end-to-end scenario, over the descriptor ds.
ScenarioQuery(ds) ==
  [cols |-> <<"id", "name">>, from |-> "t", limit |-> 1,
   data_sources |-> [t |-> ds]]

\* C7: no returned row comes from the first line of the object and each
\* returned field is the field at the same position of its line; a header
\* line followed by at most 10 malformed rows does not fail the query; and
\* over the header and the row of station 4, SELECT id,name FROM t LIMIT 1
\* yields (4, "2nd Ave & Blanchard St").
C7_HeaderSkipped ==
  /\ result # <<>> =>
       \A j \in 1..Len(result[1]) :
         /\ result[1][j].line >= 2
         /\ \A c \in 1..7 :
              result[1][j].fields[c].text = data[result[1][j].line][c]
  /\ (QueryAnswered /\ data # <<>> /\ data[1] = Header /\ BadRowCount <= 10
        /\ raised \notin Faults) => QuerySucceeded
  /\ (objExists /\ objContent = <<Header, Row4>> /\ drivedata # <<>>) =>
       ExecuteQuery(ScenarioQuery(drivedata[1]), objExists, objContent).rows =
         << [line |-> 2,
             fields |-> << [type |-> "INTEGER", text |-> "4"],
                           [type |-> "STRING",
                            text |-> "2nd Ave & Blanchard St"] >>] >>

C7_Witness ==
  /\ objExists
  /\ objContent = <<Header, Row4>>
  /\ result # <<>>
  /\ Len(result[1]) = 1
  /\ result[1][1].fields[1].text = "4"

\* C8: once declared, the descriptor's schema has 7 columns with pairwise
\* distinct names, in the order of the CSV header; the descriptor is
\* declared once and no later step changes it.
C8_SchemaState ==
  drivedata # <<>> =>
    LET sch == drivedata[1].schema
    IN  /\ Len(sch) = 7
        /\ Len(sch) = Len(Header)
        /\ \A i \in 1..Len(sch) : sch[i].name = Header[i]
        /\ \A i, j \in 1..Len(sch) : i # j => sch[i].name # sch[j].name

C8_SchemaMatchesHeader ==
  /\ []C8_SchemaState
  /\ [][drivedata # <<>> => drivedata' = drivedata]_vars

C8_Witness ==
  /\ drivedata # <<>>
  /\ pc = "done"
  /\ result # <<>>

\* C10: a connection that was opened is closed by the time the fetch step
\* is over, also when reading the body fails.
C10_ConnectionReleased ==
  pc \notin {"urlopen", "read", "close"} => ~connOpen

====
